---- MODULE Spec2Model ----
(***************************************************************************)
(* Model of the E4E backend (src/index.js): an Express server whose        *)
(* handlers translate HTTP requests into calls on Firebase Auth, Firestore *)
(* and the imgbb image host.  A request is a record that moves from one    *)
(* await point to the next; the steps of different requests interleave.    *)
(* Strings are sequences of one-character strings, so that trim, includes, *)
(* startsWith, slice and parseInt are computed as JavaScript computes them.*)
(***************************************************************************)
EXTENDS Integers, Sequences, FiniteSets, TLC

---------------------------------------------------------------------------
(* Bounds of the model *)

\* requests issued in the registration scenarios
MaxRegReq == 3
\* requests issued in the validation scenarios
MaxValReq == 1
\* requests issued in the gate scenarios
MaxGateReq == 1
\* requests issued in the event scenarios
MaxEvtReq == 2
\* requests issued in the profile scenarios
MaxUsrReq == 2
\* documents beyond the hard cap that the listing scenarios store
ExtraStored == 2

(* Program constants *)
DefaultLimit == 50
HardCap == 200
BearerLen == 7
MinPasswordLen == 6

---------------------------------------------------------------------------
(* JavaScript values *)

Str(s) == [t |-> "string", s |-> s]
Undefined == [t |-> "undefined", s |-> <<>>]
Null == [t |-> "null", s |-> <<>>]
\* a truthy value that is not a string (a number in a JSON body)
NotAString == [t |-> "number", s |-> <<>>]

IsWhite(c) == c \in {" ", "\t"}

RECURSIVE trimStart(_)
trimStart(s) ==
  IF s = <<>> THEN <<>>
  ELSE IF IsWhite(Head(s)) THEN trimStart(Tail(s)) ELSE s

RECURSIVE trimEnd(_)
trimEnd(s) ==
  IF s = <<>> THEN <<>>
  ELSE IF IsWhite(s[Len(s)]) THEN trimEnd(SubSeq(s, 1, Len(s) - 1)) ELSE s

\* String.prototype.trim
trim(s) == trimEnd(trimStart(s))

\* String.prototype.includes for a one-character needle
includes(s, c) == \E k \in 1..Len(s) : s[k] = c

\* String.prototype.startsWith
startsWith(s, p) == Len(s) >= Len(p) /\ SubSeq(s, 1, Len(p)) = p

\* String.prototype.slice(n)
slice(s, n) == SubSeq(s, n + 1, Len(s))

\* JavaScript truthiness of a value
Truthy(x) ==
  CASE x.t = "string" -> x.s # <<>>
    [] x.t = "number" -> TRUE
    [] OTHER -> FALSE

isNonEmptyString(x) == x.t = "string" /\ Len(trim(x.s)) > 0

\* the idiom  isNonEmptyString(v) ? v.trim() : null  of the event handlers
TrimOrNull(x) == IF isNonEmptyString(x) THEN Str(trim(x.s)) ELSE Null

---------------------------------------------------------------------------
(* JavaScript numbers, as far as the limit computation needs them *)

Number(n) == [nan |-> FALSE, n |-> n]
NaN == [nan |-> TRUE, n |-> 0]

Digits == <<"0", "1", "2", "3", "4", "5", "6", "7", "8", "9">>
IsDigit(c) == \E d \in 1..10 : Digits[d] = c
DigitValue(c) == (CHOOSE d \in 1..10 : Digits[d] = c) - 1

\* value of the longest prefix of decimal digits of s, continuing from acc
RECURSIVE DigitPrefix(_, _)
DigitPrefix(s, acc) ==
  IF s = <<>> \/ ~IsDigit(Head(s)) THEN acc
  ELSE DigitPrefix(Tail(s), 10 * acc + DigitValue(Head(s)))

\* parseInt(s, 10): leading white space skipped, an optional sign, then the
\* longest digit prefix; NaN when there is no digit
parseInt(s) ==
  LET t == trimStart(s)
      signed == t # <<>> /\ Head(t) \in {"-", "+"}
      d == IF signed THEN Tail(t) ELSE t
  IN  IF d = <<>> \/ ~IsDigit(Head(d)) THEN NaN
      ELSE IF signed /\ Head(t) = "-" THEN Number(0 - DigitPrefix(d, 0))
      ELSE Number(DigitPrefix(d, 0))

\* Math.min(a, b) with b a plain number
MathMin(a, b) == IF a.nan THEN NaN ELSE IF a.n < b THEN a ELSE Number(b)

\* QueryLimit without the hard cap
QueryLimitUncapped(q) == parseInt(IF Truthy(q) THEN q.s ELSE <<"5", "0">>)

\* Math.min(parseInt(req.query.limit || "50", 10), 200)
QueryLimit(q) ==
  MathMin(parseInt(IF Truthy(q) THEN q.s ELSE <<"5", "0">>), HardCap)

---------------------------------------------------------------------------
(* State *)

VARIABLES
  authUsers,    \* Firebase Auth accounts: uid -> [email, displayName]
  users,        \* Firestore collection USERS: document id -> document
  events,       \* Firestore collection EVENTS: document id -> document
  nextEventId,  \* the id Firestore gives the next added event document
  clock,        \* source of FieldValue.serverTimestamp()
  apiKey,       \* whether process.env.IMGBB_API_KEY is set
  reqs          \* the requests received so far, each with its position

vars == <<authUsers, users, events, nextEventId, clock, apiKey, reqs>>
db == <<authUsers, users, events, nextEventId, clock>>

USERS == DOMAIN users
EVENTS == DOMAIN events

\* the uid Firebase Auth gives the next account (accounts are never deleted)
NextUid == Cardinality(DOMAIN authUsers) + 1

\* the ID token a client obtains on signing in as account u
TokenOf(u) == <<"t", Digits[u + 1]>>

Bearer == <<"B", "e", "a", "r", "e", "r", " ">>

NoUser == [uid |-> 0, name |-> Undefined, email |-> Undefined]

EmptyBody == [unused |-> Undefined]

\* destructuring a field of req.body
Field(b, f) == IF f \in DOMAIN b THEN b[f] ELSE Undefined

GatedRoutes ==
  { "GET /users/me", "PUT /users/me", "GET /events/mine", "POST /events",
    "PUT /events/:id", "DELETE /events/:id", "POST /api/uploadImage",
    "POST /api/deleteImage" }

\* a request as it arrives
NewRequest(route, header, body, id, limit, file) ==
  [ route |-> route, header |-> header, body |-> body, id |-> id,
    query |-> limit, file |-> file,
    pc |-> "received", status |-> 0, entered |-> FALSE,
    error |-> "", token |-> <<>>, user |-> NoUser, newId |-> 0,
    ownerName |-> Null, ownerEmail |-> Null,
    limit |-> NaN, docs |-> {}, count |-> 0, docSnap |-> Null ]

Respond(r, status) == [r EXCEPT !.pc = "done", !.status = status]
Reject(r, status, error) ==
  [r EXCEPT !.pc = "done", !.status = status, !.error = error]
Await(r, call) == [r EXCEPT !.pc = call]

---------------------------------------------------------------------------
(* Synchronous part of each handler: from its entry to its first await *)

\* RegisterEntry with the password bound off by one
RegisterEntryOffByOne(r) ==
  LET name == Field(r.body, "name")
      email == Field(r.body, "email")
      password == Field(r.body, "password")
  IN  IF ~isNonEmptyString(name)
        THEN Reject(r, 400, "name is required (non-empty string)")
      ELSE IF ~isNonEmptyString(email) \/ ~includes(email.s, "@")
        THEN Reject(r, 400, "valid email is required")
      ELSE IF ~isNonEmptyString(password) \/ Len(password.s) < MinPasswordLen - 1
        THEN Reject(r, 400, "password must be at least 6 characters")
      ELSE Await(r, "auth.createUser")

\* the checks of POST /users/register on name, email and password
RegisterEntry(r) ==
  LET name == Field(r.body, "name")
      email == Field(r.body, "email")
      password == Field(r.body, "password")
  IN  IF ~isNonEmptyString(name)
        THEN Reject(r, 400, "name is required (non-empty string)")
      ELSE IF ~isNonEmptyString(email) \/ ~includes(email.s, "@")
        THEN Reject(r, 400, "valid email is required")
      ELSE IF ~isNonEmptyString(password) \/ Len(password.s) < MinPasswordLen
        THEN Reject(r, 400, "password must be at least 6 characters")
      ELSE Await(r, "auth.createUser")

PutMeEntry(r) ==
  IF ~isNonEmptyString(Field(r.body, "name"))
    THEN Reject(r, 400, "name is required (non-empty string)")
  ELSE Await(r, "users.update")

PostEventEntry(r) ==
  IF ~isNonEmptyString(Field(r.body, "title"))
    THEN Reject(r, 400, "title is required")
  ELSE Await(r, "users.get(owner)")

PutEventEntry(r) ==
  IF ~isNonEmptyString(Field(r.body, "title"))
    THEN Reject(r, 400, "title")
  ELSE Await(r, "events.get(put)")

UploadImageEntry(r) ==
  IF ~apiKey THEN Reject(r, 500, "Missing IMGBB_API_KEY in .env")
  ELSE IF ~r.file THEN Reject(r, 400, "Missing image file (field name: image)")
  ELSE Await(r, "axios.post")

DeleteImageEntry(r) ==
  IF ~isNonEmptyString(Field(r.body, "delete_url"))
    THEN Reject(r, 400, "delete_url is required")
  ELSE Await(r, "axios.get")

\* the handler body of r's route starts to run
HandlerEntry(r0) ==
  LET r == [r0 EXCEPT !.entered = TRUE] IN
  CASE r.route = "POST /users/register" -> RegisterEntry(r)
    [] r.route = "PUT /users/me" -> PutMeEntry(r)
    [] r.route = "GET /users/me" -> Await(r, "users.get(me)")
    [] r.route = "GET /events" ->
         Await([r EXCEPT !.limit = QueryLimit(r.query)], "events.query")
    [] r.route = "GET /events/mine" ->
         Await([r EXCEPT !.limit = QueryLimit(r.query)], "events.query(mine)")
    [] r.route = "POST /events" -> PostEventEntry(r)
    [] r.route = "PUT /events/:id" -> PutEventEntry(r)
    [] r.route = "DELETE /events/:id" -> Await(r, "events.get(delete)")
    [] r.route = "POST /api/uploadImage" -> UploadImageEntry(r)
    [] r.route = "POST /api/deleteImage" -> DeleteImageEntry(r)

\* the Bearer token of the Authorization header, or the empty string
BearerToken(h) ==
  LET header == IF Truthy(h) THEN h.s ELSE <<>>
  IN  IF startsWith(header, Bearer) THEN slice(header, BearerLen) ELSE <<>>

\* requireAuth up to its await of auth.verifyIdToken
requireAuth(r) ==
  LET token == BearerToken(r.header)
  IN  IF token = <<>>
        THEN Reject(r, 401, "Missing Authorization Bearer token")
      ELSE Await([r EXCEPT !.token = token], "auth.verifyIdToken")

\* Dispatch with PUT /events/:id registered without requireAuth
DispatchPutUngated(r) ==
  IF r.route \in GatedRoutes \ {"PUT /events/:id"} THEN requireAuth(r)
  ELSE HandlerEntry(r)

\* Express dispatches an arriving request to its route
Dispatch(r) == IF r.route \in GatedRoutes THEN requireAuth(r) ELSE HandlerEntry(r)

Receive(r) ==
  /\ reqs' = Append(reqs, Dispatch(r))
  /\ UNCHANGED <<db, apiKey>>

---------------------------------------------------------------------------
(* Continuations: one action per awaited call, taken when the service      *)
(* answers.  A call that rejects for a reason of its own (network, quota,  *)
(* an expired token) is the action CallRejects.                            *)

At(i, call) == i \in 1..Len(reqs) /\ reqs[i].pc = call
\* no request is in flight
Quiescent == \A i \in 1..Len(reqs) : reqs[i].pc = "done"
Continue(i, r) == reqs' = [reqs EXCEPT ![i] = r]

AwaitPoints ==
  { "auth.verifyIdToken", "auth.createUser", "users.set", "users.get(me)",
    "users.update", "auth.updateUser", "users.get(owner)", "events.add",
    "events.get(put)", "events.update", "events.get(delete)", "events.delete",
    "events.query", "events.query(mine)", "axios.post", "axios.get" }

\* the catch block the rejection of r's awaited call lands in: requireAuth
\* answers 401, every handler answers 500 with the error's message
Caught(r) ==
  IF r.pc = "auth.verifyIdToken" THEN Reject(r, 401, "Invalid token")
  ELSE Reject(r, 500, "e.message")

\* the awaited call of request i rejects; it has had no effect
CallRejects(i) ==
  /\ i \in 1..Len(reqs)
  /\ reqs[i].pc \in AwaitPoints
  /\ Continue(i, Caught(reqs[i]))
  /\ UNCHANGED <<db, apiKey>>

\* what auth.verifyIdToken resolves to for the token of account u
DecodedToken(u) ==
  [uid |-> u, name |-> authUsers[u].displayName, email |-> authUsers[u].email]

\* requireAuth from auth.verifyIdToken on: next() runs the handler, a token
\* that is no account's is rejected
VerifyIdToken(i) ==
  /\ At(i, "auth.verifyIdToken")
  /\ LET r == reqs[i]
         holders == {u \in DOMAIN authUsers : TokenOf(u) = r.token}
     IN  IF holders # {}
           THEN LET u == CHOOSE u \in holders : TRUE
                IN  Continue(i, HandlerEntry([r EXCEPT !.user = DecodedToken(u)]))
         ELSE Continue(i, Reject(r, 401, "Invalid token"))
  /\ UNCHANGED <<db, apiKey>>

\* CreateUser with the catch block's 409 branch missing
CreateUserNoConflictBranch(i) ==
  /\ At(i, "auth.createUser")
  /\ LET r == reqs[i]
         email == Str(trim(Field(r.body, "email").s))
         displayName == Str(trim(Field(r.body, "name").s))
         taken == \E u \in DOMAIN authUsers : authUsers[u].email = email
     IN  IF taken
           THEN /\ Continue(i, Reject(r, 500, "e.message"))
                /\ UNCHANGED authUsers
         ELSE /\ authUsers' = authUsers @@
                     (NextUid :> [email |-> email, displayName |-> displayName])
              /\ Continue(i, Await([r EXCEPT !.newId = NextUid], "users.set"))
  /\ UNCHANGED <<users, events, nextEventId, clock, apiKey>>

\* POST /users/register: auth.createUser; an email already in use is
\* rejected with auth/email-already-exists, which the handler maps to 409
CreateUser(i) ==
  /\ At(i, "auth.createUser")
  /\ LET r == reqs[i]
         email == Str(trim(Field(r.body, "email").s))
         displayName == Str(trim(Field(r.body, "name").s))
         taken == \E u \in DOMAIN authUsers : authUsers[u].email = email
     IN  IF taken
           THEN /\ Continue(i, Reject(r, 409, "Email already exists"))
                /\ UNCHANGED authUsers
         ELSE /\ authUsers' = authUsers @@
                     (NextUid :> [email |-> email, displayName |-> displayName])
              /\ Continue(i, Await([r EXCEPT !.newId = NextUid], "users.set"))
  /\ UNCHANGED <<users, events, nextEventId, clock, apiKey>>

\* POST /users/register: the profile document is written under the new uid
UsersSet(i) ==
  /\ At(i, "users.set")
  /\ LET r == reqs[i]
         doc == [ name |-> Str(trim(Field(r.body, "name").s)),
                  email |-> Str(trim(Field(r.body, "email").s)),
                  createdAt |-> clock + 1, updatedAt |-> 0 ]
     IN  /\ users' = [u \in USERS \cup {r.newId} |->
                        IF u = r.newId THEN doc ELSE users[u]]
         /\ clock' = clock + 1
         /\ Continue(i, Respond(r, 201))
  /\ UNCHANGED <<authUsers, events, nextEventId, apiKey>>

\* GET /users/me
UsersGetMe(i) ==
  /\ At(i, "users.get(me)")
  /\ LET r == reqs[i]
     IN  IF r.user.uid \notin USERS
           THEN Continue(i, Reject(r, 404, "User profile not found"))
         ELSE Continue(i, Respond(r, 200))
  /\ UNCHANGED <<db, apiKey>>

\* PUT /users/me: the document update; update() rejects when the document
\* does not exist
UsersUpdate(i) ==
  /\ At(i, "users.update")
  /\ LET r == reqs[i]
         uid == r.user.uid
     IN  IF uid \in USERS
           THEN /\ users' = [users EXCEPT
                               ![uid].name = Str(trim(Field(r.body, "name").s)),
                               ![uid].updatedAt = clock + 1]
                /\ clock' = clock + 1
                /\ Continue(i, Await(r, "auth.updateUser"))
         ELSE /\ Continue(i, Reject(r, 500, "e.message"))
              /\ UNCHANGED <<users, clock>>
  /\ UNCHANGED <<authUsers, events, nextEventId, apiKey>>

\* PUT /users/me: the display name of the account
AuthUpdateUser(i) ==
  /\ At(i, "auth.updateUser")
  /\ LET r == reqs[i]
         uid == r.user.uid
     IN  /\ authUsers' = [authUsers EXCEPT
                ![uid].displayName = Str(trim(Field(r.body, "name").s))]
         /\ Continue(i, Respond(r, 200))
  /\ UNCHANGED <<users, events, nextEventId, clock, apiKey>>

---------------------------------------------------------------------------
(* Events *)

\* s.split("@")[0]
RECURSIVE BeforeAt(_)
BeforeAt(s) ==
  IF s = <<>> \/ Head(s) = "@" THEN <<>> ELSE <<Head(s)>> \o BeforeAt(Tail(s))

\* ownerName of POST /events: profile name, else token name, else the local
\* part of the token's email, else "Unknown"
OwnerName(uid, user) ==
  LET n1 == IF uid \in USERS /\ Truthy(users[uid].name)
              THEN trim(users[uid].name.s) ELSE <<>>
      n2 == IF Truthy(user.name) THEN trim(user.name.s) ELSE <<>>
  IN  IF n1 # <<>> THEN Str(n1)
      ELSE IF n2 # <<>> THEN Str(n2)
      ELSE IF Truthy(user.email) THEN Str(BeforeAt(user.email.s))
      ELSE Str(<<"U", "n", "k", "n", "o", "w", "n">>)

\* ownerEmail of POST /events
OwnerEmail(uid, user) ==
  IF uid \in USERS /\ Truthy(users[uid].email) THEN users[uid].email
  ELSE IF Truthy(user.email) THEN user.email
  ELSE Null

\* POST /events: the caller's profile document is read
UsersGetOwner(i) ==
  /\ At(i, "users.get(owner)")
  /\ LET r == reqs[i]
     IN  Continue(i, Await([r EXCEPT
             !.ownerName = OwnerName(r.user.uid, r.user),
             !.ownerEmail = OwnerEmail(r.user.uid, r.user)], "events.add"))
  /\ UNCHANGED <<db, apiKey>>

\* the document POST /events adds
NewEvent(r, now) ==
  [ title |-> Str(trim(Field(r.body, "title").s)),
    location |-> TrimOrNull(Field(r.body, "location")),
    description |-> TrimOrNull(Field(r.body, "description")),
    imageUrl |-> TrimOrNull(Field(r.body, "imageUrl")),
    imageDeleteUrl |-> TrimOrNull(Field(r.body, "imageDeleteUrl")),
    ownerUid |-> r.user.uid, ownerName |-> r.ownerName,
    ownerEmail |-> r.ownerEmail, createdAt |-> now, updatedAt |-> 0 ]

\* POST /events: the document is added under a fresh id
EventsAdd(i) ==
  /\ At(i, "events.add")
  /\ LET r == reqs[i]
     IN  /\ events' = events @@ (nextEventId :> NewEvent(r, clock + 1))
         /\ nextEventId' = nextEventId + 1
         /\ clock' = clock + 1
         /\ Continue(i, Respond([r EXCEPT !.newId = nextEventId], 201))
  /\ UNCHANGED <<authUsers, users, apiKey>>

\* OwnerCheck without the comparison of ownerUid
OwnerCheckAnyone(r, next) ==
  IF r.id \notin EVENTS THEN Reject(r, 404, "A megadott esemeny nem letezik")
  ELSE [Await(r, next) EXCEPT !.docSnap = events[r.id]]

\* OwnerCheck that lets a missing document through to the write
OwnerCheckNoExists(r, next) ==
  IF r.id \in EVENTS /\ events[r.id].ownerUid # r.user.uid
    THEN Reject(r, 403, "Nem a te esemenyed")
  ELSE Await(r, next)

\* the existence and ownership checks of PUT and DELETE /events/:id on the
\* snapshot just read; next is the call awaited when both pass, and the
\* request that goes on holds the data it read in docSnap
OwnerCheck(r, next) ==
  IF r.id \notin EVENTS THEN Reject(r, 404, "A megadott esemeny nem letezik")
  ELSE IF events[r.id].ownerUid # r.user.uid
    THEN Reject(r, 403, "Nem a te esemenyed")
  ELSE [Await(r, next) EXCEPT !.docSnap = events[r.id]]

\* PUT /events/:id: the document is read and checked
PutEventGet(i) ==
  /\ At(i, "events.get(put)")
  /\ Continue(i, OwnerCheck(reqs[i], "events.update"))
  /\ UNCHANGED <<db, apiKey>>

\* UpdatedEvent that keeps the old value of a field the request omits
UpdatedEventMerge(d, r, now) ==
  LET keep(f) == IF f \in DOMAIN r.body THEN TrimOrNull(r.body[f]) ELSE d[f]
  IN  [d EXCEPT
         !.title = Str(trim(Field(r.body, "title").s)),
         !.location = keep("location"),
         !.imageUrl = keep("imageUrl"),
         !.imageDeleteUrl = keep("imageDeleteUrl"),
         !.updatedAt = now]

\* the fields PUT /events/:id writes over document d
UpdatedEvent(d, r, now) ==
  [d EXCEPT
     !.title = Str(trim(Field(r.body, "title").s)),
     !.location = TrimOrNull(Field(r.body, "location")),
     !.imageUrl = TrimOrNull(Field(r.body, "imageUrl")),
     !.imageDeleteUrl = TrimOrNull(Field(r.body, "imageDeleteUrl")),
     !.updatedAt = now]

\* EventsUpdate that writes only when the document is still the one read
EventsUpdateIfUnchanged(i) ==
  /\ At(i, "events.update")
  /\ LET r == reqs[i]
     IN  IF r.id \in EVENTS /\ events[r.id] = r.docSnap
           THEN /\ events' = [events EXCEPT
                                ![r.id] = UpdatedEvent(events[r.id], r, clock + 1)]
                /\ clock' = clock + 1
                /\ Continue(i, Respond(r, 200))
         ELSE /\ Continue(i, Reject(r, 500, "e.message"))
              /\ UNCHANGED <<events, clock>>
  /\ UNCHANGED <<authUsers, users, nextEventId, apiKey>>

\* PUT /events/:id: the update; update() rejects when the document is gone
EventsUpdate(i) ==
  /\ At(i, "events.update")
  /\ LET r == reqs[i]
     IN  IF r.id \in EVENTS
           THEN /\ events' = [events EXCEPT
                                ![r.id] = UpdatedEvent(events[r.id], r, clock + 1)]
                /\ clock' = clock + 1
                /\ Continue(i, Respond(r, 200))
         ELSE /\ Continue(i, Reject(r, 500, "e.message"))
              /\ UNCHANGED <<events, clock>>
  /\ UNCHANGED <<authUsers, users, nextEventId, apiKey>>

\* DELETE /events/:id: the document is read and checked
DeleteEventGet(i) ==
  /\ At(i, "events.get(delete)")
  /\ Continue(i, OwnerCheck(reqs[i], "events.delete"))
  /\ UNCHANGED <<db, apiKey>>

\* DELETE /events/:id: the delete; deleting an absent document succeeds
EventsDelete(i) ==
  /\ At(i, "events.delete")
  /\ LET r == reqs[i]
     IN  /\ events' = [e \in EVENTS \ {r.id} |-> events[e]]
         /\ Continue(i, Respond(r, 200))
  /\ UNCHANGED <<authUsers, users, nextEventId, clock, apiKey>>

\* orderBy("createdAt", "desc").limit(n) over the documents S of EVENTS
NewestFirst(S, n) ==
  {e \in S : Cardinality({f \in S : events[f].createdAt > events[e].createdAt}) < n}

\* the answer to a list request: Firestore rejects a limit that is no
\* integer or is negative, which the handler's catch turns into 500
QueryResult(r, S) ==
  IF r.limit.nan \/ r.limit.n < 0 THEN Reject(r, 500, "e.message")
  ELSE LET docs == NewestFirst(S, r.limit.n)
       IN  Respond([r EXCEPT !.docs = docs, !.count = Cardinality(docs)], 200)

\* GET /events
EventsQuery(i) ==
  /\ At(i, "events.query")
  /\ Continue(i, QueryResult(reqs[i], EVENTS))
  /\ UNCHANGED <<db, apiKey>>

\* GET /events/mine
EventsQueryMine(i) ==
  /\ At(i, "events.query(mine)")
  /\ LET r == reqs[i]
     IN  Continue(i, QueryResult(r, {e \in EVENTS : events[e].ownerUid = r.user.uid}))
  /\ UNCHANGED <<db, apiKey>>

---------------------------------------------------------------------------
(* Image host *)

\* POST /api/uploadImage: imgbb answers with a url or without one
AxiosPost(i) ==
  /\ At(i, "axios.post")
  /\ \E url \in BOOLEAN :
       IF url THEN Continue(i, Respond(reqs[i], 200))
       ELSE Continue(i, Reject(reqs[i], 500, "imgbb upload failed"))
  /\ UNCHANGED <<db, apiKey>>

\* POST /api/deleteImage
AxiosGet(i) ==
  /\ At(i, "axios.get")
  /\ Continue(i, Respond(reqs[i], 200))
  /\ UNCHANGED <<db, apiKey>>

---------------------------------------------------------------------------
(* Initial states *)

NoDocs == [d \in {} |-> Null]

\* the server has started on empty services
Init ==
  /\ authUsers = NoDocs
  /\ users = NoDocs
  /\ events = NoDocs
  /\ nextEventId = 1
  /\ clock = 0
  /\ apiKey \in BOOLEAN
  /\ reqs = <<>>

---------------------------------------------------------------------------
(* Registration: requests to POST /users/register on empty services *)

Ann == Str(<<"A", "n", "n">>)
AnnMail == Str(<<"a", "@", "x", ".", "y">>)
AnnMailPadded == Str(<<" ", "a", "@", "x", ".", "y", " ">>)
BobMail == Str(<<"b", "@", "x", ".", "y">>)
Secret1 == Str(<<"s", "e", "c", "r", "e", "t", "1">>)
Short == Str(<<"s", "h", "o", "r", "t">>)
SixSpaces == Str(<<" ", " ", " ", " ", " ", " ">>)

RegisterRequest(name, email, password) ==
  NewRequest("POST /users/register", Undefined,
             [name |-> name, email |-> email, password |-> password],
             0, Undefined, FALSE)

ReceiveRegister ==
  /\ Len(reqs) < MaxRegReq
  /\ \E email \in {AnnMail, AnnMailPadded, BobMail}, password \in {Secret1, Short} :
       Receive(RegisterRequest(Ann, email, password))

NextReg ==
  \/ ReceiveRegister
  \/ \E i \in 1..Len(reqs) : CreateUser(i)
  \/ \E i \in 1..Len(reqs) : UsersSet(i)
  \/ \E i \in 1..Len(reqs) : CallRejects(i)

SpecReg == Init /\ [][NextReg]_vars

---------------------------------------------------------------------------
(* Validation: one registration with every kind of name, email, password *)

Names ==
  { Undefined, NotAString, Str(<<>>), Str(<<" ", "\t">>), Ann,
    Str(<<" ", "A", " ">>) }
Emails ==
  { Undefined, NotAString, Str(<<" ">>), Str(<<"a", "x", ".", "y">>), AnnMail,
    AnnMailPadded }
Passwords ==
  { Undefined, NotAString, Str(<<>>), Short, Secret1, SixSpaces,
    Str(<<" ", " ", " ", " ", " ">>), Str(<<" ", "e", "c", "r", "e", "t">>),
    Str(<<"s", "e", "c", "r", "e", "t">>) }

ReceiveAnyRegister ==
  /\ Len(reqs) < MaxValReq
  /\ \E name \in Names, email \in Emails, password \in Passwords :
       Receive(RegisterRequest(name, email, password))

NextVal ==
  \/ ReceiveAnyRegister
  \/ \E i \in 1..Len(reqs) : CreateUser(i)
  \/ \E i \in 1..Len(reqs) : UsersSet(i)
  \/ \E i \in 1..Len(reqs) : CallRejects(i)

SpecVal == Init /\ [][NextVal]_vars

---------------------------------------------------------------------------
(* Services in use: Ann and Bob have registered, Ann has posted an event *)

Bob == Str(<<"B", "o", "b">>)
Meetup == Str(<<"M", "e", "e", "t", "u", "p">>)
Hall == Str(<<"H", "a", "l", "l">>)
Pic == Str(<<"p", "i", "c">>)
Del == Str(<<"d", "e", "l">>)

SeedAccounts ==
  (1 :> [email |-> AnnMail, displayName |-> Ann]) @@
  (2 :> [email |-> BobMail, displayName |-> Bob])

SeedUsers ==
  (1 :> [name |-> Ann, email |-> AnnMail, createdAt |-> 1, updatedAt |-> 0]) @@
  (2 :> [name |-> Bob, email |-> BobMail, createdAt |-> 2, updatedAt |-> 0])

SeedEvent ==
  [ title |-> Meetup, location |-> Hall, description |-> Null,
    imageUrl |-> Pic, imageDeleteUrl |-> Del,
    ownerUid |-> 1, ownerName |-> Ann, ownerEmail |-> AnnMail,
    createdAt |-> 3, updatedAt |-> 0 ]

\* the services after Ann's and Bob's registrations and Ann's POST /events
ServicesInUse ==
  /\ authUsers = SeedAccounts
  /\ users = SeedUsers
  /\ events = (1 :> SeedEvent)
  /\ nextEventId = 2
  /\ clock = 3

\* the server has started on services in use, with its image host key set
InitInUse == ServicesInUse /\ apiKey = TRUE /\ reqs = <<>>

\* the same, with the image host key set or missing
InitGate == ServicesInUse /\ apiKey \in BOOLEAN /\ reqs = <<>>

AuthHeader(u) == Str(Bearer \o TokenOf(u))

---------------------------------------------------------------------------
(* Start-up: the three requests that take empty services to ServicesInUse *)

BootRequests ==
  << RegisterRequest(Ann, AnnMail, Secret1),
     RegisterRequest(Bob, BobMail, Secret1),
     NewRequest("POST /events", AuthHeader(1),
                [title |-> Meetup, location |-> Hall, imageUrl |-> Pic,
                 imageDeleteUrl |-> Del], 0, Undefined, FALSE) >>

ReceiveBoot ==
  /\ Len(reqs) < Len(BootRequests)
  /\ Receive(BootRequests[Len(reqs) + 1])

NextBoot ==
  \/ ReceiveBoot
  \/ \E i \in 1..Len(reqs) : CreateUser(i)
  \/ \E i \in 1..Len(reqs) : UsersSet(i)
  \/ \E i \in 1..Len(reqs) : VerifyIdToken(i)
  \/ \E i \in 1..Len(reqs) : UsersGetOwner(i)
  \/ \E i \in 1..Len(reqs) : EventsAdd(i)
  \/ \E i \in 1..Len(reqs) : CallRejects(i)

\* from empty services the start-up requests reach ServicesInUse
SpecBoot == Init /\ [][NextBoot]_vars
InUseReached == ServicesInUse /\ Quiescent

---------------------------------------------------------------------------
(* The gate: every gated route under every kind of Authorization header *)

Headers ==
  { Undefined, Str(<<>>), Str(Bearer), Str(TokenOf(1)),
    Str(<<"B", "a", "s", "i", "c", " ">> \o TokenOf(1)),
    Str(<<"b", "e", "a", "r", "e", "r", " ">> \o TokenOf(1)),
    Str(<<"B", "e", "a", "r", "e", "r">> \o TokenOf(1)),
    AuthHeader(1), AuthHeader(2), AuthHeader(8), Str(Bearer \o <<"x">>) }

\* a body that is valid for every gated route
GateBody ==
  [ name |-> Str(<<"A", "n", "n", "a">>), title |-> Str(<<"G", "a", "l", "a">>),
    delete_url |-> Del ]

ReceiveGated ==
  /\ Len(reqs) < MaxGateReq
  /\ \E route \in GatedRoutes, header \in Headers :
       Receive(NewRequest(route, header, GateBody, 1, Undefined, TRUE))

NextGate ==
  \/ ReceiveGated
  \/ \E i \in 1..Len(reqs) : VerifyIdToken(i)
  \/ \E i \in 1..Len(reqs) : UsersGetMe(i)
  \/ \E i \in 1..Len(reqs) : UsersUpdate(i)
  \/ \E i \in 1..Len(reqs) : AuthUpdateUser(i)
  \/ \E i \in 1..Len(reqs) : EventsQueryMine(i)
  \/ \E i \in 1..Len(reqs) : UsersGetOwner(i)
  \/ \E i \in 1..Len(reqs) : EventsAdd(i)
  \/ \E i \in 1..Len(reqs) : PutEventGet(i)
  \/ \E i \in 1..Len(reqs) : EventsUpdate(i)
  \/ \E i \in 1..Len(reqs) : DeleteEventGet(i)
  \/ \E i \in 1..Len(reqs) : EventsDelete(i)
  \/ \E i \in 1..Len(reqs) : AxiosPost(i)
  \/ \E i \in 1..Len(reqs) : AxiosGet(i)
  \/ \E i \in 1..Len(reqs) : CallRejects(i)

SpecGate == InitGate /\ [][NextGate]_vars

---------------------------------------------------------------------------
(* Events: Ann and Bob create, update and delete events *)

Park == Str(<<" ", "P", "a", "r", "k", " ">>)
Gala == Str(<<" ", "G", "a", "l", "a">>)
Blank == Str(<<" ", " ">>)

PutBodies ==
  { [title |-> Gala, imageDeleteUrl |-> NotAString],
    [title |-> Meetup, location |-> Park, imageUrl |-> Blank,
     imageDeleteUrl |-> Str(<<"r", "m", " ">>)],
    [title |-> Blank, location |-> Park] }

PostBodies ==
  { [title |-> Gala, location |-> Park, description |-> Blank, imageUrl |-> Pic] }

ReceiveEventRequest ==
  /\ Len(reqs) < MaxEvtReq
  /\ \E u \in 1..2 :
       \/ \E body \in PostBodies :
            Receive(NewRequest("POST /events", AuthHeader(u), body, 0, Undefined, FALSE))
       \/ \E body \in PutBodies, id \in 1..2 :
            Receive(NewRequest("PUT /events/:id", AuthHeader(u), body, id, Undefined, FALSE))
       \/ \E id \in 1..2 :
            Receive(NewRequest("DELETE /events/:id", AuthHeader(u), EmptyBody, id,
                               Undefined, FALSE))

NextEvt ==
  \/ ReceiveEventRequest
  \/ \E i \in 1..Len(reqs) : VerifyIdToken(i)
  \/ \E i \in 1..Len(reqs) : UsersGetOwner(i)
  \/ \E i \in 1..Len(reqs) : EventsAdd(i)
  \/ \E i \in 1..Len(reqs) : PutEventGet(i)
  \/ \E i \in 1..Len(reqs) : EventsUpdate(i)
  \/ \E i \in 1..Len(reqs) : DeleteEventGet(i)
  \/ \E i \in 1..Len(reqs) : EventsDelete(i)
  \/ \E i \in 1..Len(reqs) : CallRejects(i)

SpecEvt == InitInUse /\ [][NextEvt]_vars

---------------------------------------------------------------------------
(* Profiles: Ann and Bob read and update their own profile *)

ReceiveProfileRequest ==
  /\ Len(reqs) < MaxUsrReq
  /\ \E u \in 1..2 :
       \/ \E name \in {Str(<<" ", "A", "n", "n", "a">>), Blank, Undefined} :
            Receive(NewRequest("PUT /users/me", AuthHeader(u), [name |-> name], 0,
                               Undefined, FALSE))
       \/ Receive(NewRequest("GET /users/me", AuthHeader(u), EmptyBody, 0,
                             Undefined, FALSE))

NextUsr ==
  \/ ReceiveProfileRequest
  \/ \E i \in 1..Len(reqs) : VerifyIdToken(i)
  \/ \E i \in 1..Len(reqs) : UsersGetMe(i)
  \/ \E i \in 1..Len(reqs) : UsersUpdate(i)
  \/ \E i \in 1..Len(reqs) : AuthUpdateUser(i)
  \/ \E i \in 1..Len(reqs) : CallRejects(i)

SpecUsr == InitInUse /\ [][NextUsr]_vars

---------------------------------------------------------------------------
(* Listing: one GET /events on stores of several sizes *)

StoreSizes ==
  { 0, 1, DefaultLimit - 1, DefaultLimit, DefaultLimit + 1, HardCap,
    HardCap + 1, HardCap + ExtraStored }

StoredEvent(k) ==
  [SeedEvent EXCEPT !.ownerUid = 1 + (k % 2), !.createdAt = 2 + k]

InitLst ==
  /\ authUsers = SeedAccounts
  /\ users = SeedUsers
  /\ \E n \in StoreSizes :
       /\ events = [k \in 1..n |-> StoredEvent(k)]
       /\ nextEventId = n + 1
       /\ clock = n + 2
  /\ apiKey = TRUE
  /\ reqs = <<>>

Limit500 == Str(<<"5", "0", "0">>)

Limits ==
  { Undefined, Str(<<>>), Limit500, Str(<<"2", "0", "0">>),
    Str(<<"2", "0", "1">>), Str(<<"1", "9", "9">>), Str(<<"5", "1">>),
    Str(<<"3">>), Str(<<"0">>), Str(<<"-", "5">>), Str(<<"a", "b", "c">>),
    Str(<<"1", "2", "a", "b", "c">>), Str(<<" ", "7">>), Str(<<"+", "6", "0">>),
    Str(<<"1", "e", "3">>), Str(<<"0", "x", "1", "0">>) }

ReceiveList ==
  /\ reqs = <<>>
  /\ \E limit \in Limits :
       Receive(NewRequest("GET /events", Undefined, EmptyBody, 0, limit, FALSE))

NextLst ==
  \/ ReceiveList
  \/ \E i \in 1..Len(reqs) : EventsQuery(i)
  \/ \E i \in 1..Len(reqs) : CallRejects(i)

SpecLst == InitLst /\ [][NextLst]_vars

---------------------------------------------------------------------------
(* Properties of registration *)

IsRegister(r) == r.route = "POST /users/register"

BlankName(n) == n.t # "string" \/ \A k \in 1..Len(n.s) : IsWhite(n.s[k])
NoAtSign(e) == e.t # "string" \/ \A k \in 1..Len(e.s) : e.s[k] # "@"
ShortPassword(p) == p.t = "string" /\ Len(p.s) < 6

InvalidRegistration(r) ==
  \/ BlankName(Field(r.body, "name"))
  \/ NoAtSign(Field(r.body, "email"))
  \/ ShortPassword(Field(r.body, "password"))

\* C3: a registration with a password shorter than 6, an email without "@"
\* or a blank name is answered 400 on arrival, never reaches auth.createUser
\* or the document write, and every account and every user document is the
\* work of some other, valid registration.
C3_InvalidRegistrationRejected ==
  /\ \A i \in 1..Len(reqs) :
       IsRegister(reqs[i]) /\ InvalidRegistration(reqs[i]) =>
         reqs[i].pc = "done" /\ reqs[i].status = 400 /\ reqs[i].newId = 0
  /\ (DOMAIN authUsers) \cup USERS \subseteq
       { reqs[i].newId : i \in {j \in 1..Len(reqs) : ~InvalidRegistration(reqs[j])} }

\* a registration with a good name and email and a five-character password
\* has been answered 400, and there is no account and no document
C3_Witness ==
  /\ \E i \in 1..Len(reqs) :
       /\ reqs[i].body = [name |-> Ann, email |-> AnnMail, password |-> Short]
       /\ reqs[i].status = 400
  /\ authUsers = NoDocs /\ users = NoDocs

\* C4: whenever no request is in flight, the user documents are exactly
\* the documents of the auth accounts, each under its account's uid.
C4_OneDocumentPerIdentity == Quiescent => USERS = DOMAIN authUsers

SameEmail(r, q) ==
  trim(Field(r.body, "email").s) = trim(Field(q.body, "email").s)

\* C5: a registration whose email is already an account's is answered 409
\* when auth.createUser answers, and that step adds or changes no account
\* and no user document; of the registrations with one email at most one is
\* answered 201, and its account and its document stay as it wrote them.
C5_DuplicateEmailConflict ==
  /\ [][\A j \in 1..Len(reqs) :
          ( /\ CreateUser(j)
            /\ \E u \in DOMAIN authUsers :
                 authUsers[u].email = Str(trim(Field(reqs[j].body, "email").s)) )
          => /\ reqs'[j].pc = "done" /\ reqs'[j].status = 409
             /\ authUsers' = authUsers /\ users' = users]_vars
  /\ [](\A i, j \in 1..Len(reqs) :
          /\ IsRegister(reqs[i]) /\ IsRegister(reqs[j])
          /\ reqs[i].status = 201 /\ SameEmail(reqs[i], reqs[j]) /\ i # j
          => /\ reqs[j].status # 201
             /\ reqs[j].newId = 0
             /\ reqs[i].newId \in USERS
             /\ users[reqs[i].newId].name = Str(trim(Field(reqs[i].body, "name").s))
             /\ Cardinality({u \in DOMAIN authUsers :
                              authUsers[u].email = users[reqs[i].newId].email}) = 1)

\* a registration was answered 201, a later one with the same email (but
\* for white space around it) 409, and there is one account
C5_Witness ==
  \E i, j \in 1..Len(reqs) :
    /\ i < j
    /\ reqs[i].status = 201 /\ reqs[j].status = 409
    /\ Field(reqs[i].body, "email") = AnnMail
    /\ Field(reqs[j].body, "email") = AnnMailPadded
    /\ Cardinality(DOMAIN authUsers) = 1 /\ Cardinality(USERS) = 1

\* C9: with a valid name and email, a registration is answered 400
\* "password must be at least 6 characters" exactly when its password is
\* not a string of at least 6 characters, white space counted.
C9_PasswordLengthUntrimmed ==
  \A i \in 1..Len(reqs) :
    LET r == reqs[i]
        p == Field(r.body, "password")
    IN  /\ IsRegister(r)
        /\ ~BlankName(Field(r.body, "name"))
        /\ ~NoAtSign(Field(r.body, "email"))
        /\ ~BlankName(Field(r.body, "email"))
        => ( r.error = "password must be at least 6 characters"
               <=> ~(p.t = "string" /\ Len(p.s) >= 6) )

---------------------------------------------------------------------------
(* Properties of the gate *)

Gated(r) == r.route \in GatedRoutes

\* h has the form "Bearer <token>" and the token is some account's
Verifiable(h) ==
  /\ h.t = "string"
  /\ Len(h.s) > 7
  /\ SubSeq(h.s, 1, 7) = <<"B", "e", "a", "r", "e", "r", " ">>
  /\ \E u \in DOMAIN authUsers : TokenOf(u) = SubSeq(h.s, 8, Len(h.s))

\* the account whose token r carries, 0 when it carries none
CallerOf(r) ==
  IF \E u \in DOMAIN authUsers : r.header = AuthHeader(u)
    THEN CHOOSE u \in DOMAIN authUsers : r.header = AuthHeader(u)
  ELSE 0

\* C1: a request to a gated route whose Authorization header is absent, not
\* of the form "Bearer <token>", or whose token is not verified is answered
\* 401 and nothing else; the handler body is entered only with a verified
\* token, and the steps of a request that has not entered its handler leave
\* the accounts, the user documents and the event documents as they were.
C1_GateRejectsUnauthenticated ==
  /\ [](\A i \in 1..Len(reqs) :
          LET r == reqs[i]
          IN  Gated(r) =>
                /\ ~Verifiable(r.header) =>
                     /\ r.pc \in {"auth.verifyIdToken", "done"}
                     /\ r.pc = "done" => r.status = 401
                /\ r.status = 401 => ~r.entered /\ r.user = NoUser
                /\ r.pc = "done" /\ ~r.entered => r.status = 401
                /\ r.entered => Verifiable(r.header) /\ r.user.uid = CallerOf(r))
  /\ [][\A i \in 1..Len(reqs') :
          ( /\ Gated(reqs'[i])
            /\ ~reqs'[i].entered
            /\ (i > Len(reqs) \/ reqs'[i] # reqs[i]) )
          => UNCHANGED db]_vars

\* a DELETE of Ann's event with a token that is no account's was answered
\* 401, and the event is still stored
C1_Witness ==
  \E i \in 1..Len(reqs) :
    /\ reqs[i].route = "DELETE /events/:id"
    /\ reqs[i].header = AuthHeader(8)
    /\ reqs[i].status = 401
    /\ ~reqs[i].entered
    /\ events = (1 :> SeedEvent)

---------------------------------------------------------------------------
(* Properties of the event handlers *)

IsPut(r) == r.route = "PUT /events/:id"
IsDelete(r) == r.route = "DELETE /events/:id"

\* C2: a PUT or DELETE carrying a valid token of an identity other than the
\* event's owner, the creator, never changes or deletes the stored document,
\* is never answered 200, and is answered 403 when its read of the document
\* is answered, whatever other requests do in between.
C2_OnlyOwnerMutates ==
  /\ [][\A j \in 1..Len(reqs) :
          LET r == reqs[j]
          IN  ( /\ IsPut(r) \/ IsDelete(r)
                /\ r.id \in EVENTS
                /\ CallerOf(r) # 0
                /\ CallerOf(r) # events[r.id].ownerUid
                /\ reqs'[j] # r )
              => /\ r.id \in DOMAIN events'
                 /\ events'[r.id] = events[r.id]
                 /\ reqs'[j].status # 200
                 /\ PutEventGet(j) \/ DeleteEventGet(j) =>
                      reqs'[j].pc = "done" /\ reqs'[j].status = 403]_vars
  /\ [](\A i \in 1..Len(reqs) :
          reqs[i].route = "POST /events" /\ reqs[i].status = 201
          /\ reqs[i].newId \in EVENTS
          => events[reqs[i].newId].ownerUid = CallerOf(reqs[i]))

\* Bob's PUT and Bob's DELETE of Ann's event were both answered 403 and the
\* document is as Ann created it
C2_Witness ==
  \E i, j \in 1..Len(reqs) :
    /\ IsPut(reqs[i]) /\ IsDelete(reqs[j])
    /\ reqs[i].id = 1 /\ reqs[j].id = 1
    /\ CallerOf(reqs[i]) = 2 /\ CallerOf(reqs[j]) = 2
    /\ reqs[i].status = 403 /\ reqs[j].status = 403
    /\ events = (1 :> SeedEvent)

\* C6: when the read of a PUT or DELETE is answered and finds no document
\* under the request's id, the request is answered 404; that step, and any
\* other step of a request whose id names no stored document, creates,
\* changes and deletes nothing.
C6_MissingEventNotFound ==
  [][\A j \in 1..Len(reqs) :
       LET r == reqs[j]
       IN  ( /\ IsPut(r) \/ IsDelete(r)
             /\ r.id \notin EVENTS
             /\ reqs'[j] # r )
           => /\ UNCHANGED db
              /\ PutEventGet(j) \/ DeleteEventGet(j) =>
                   reqs'[j].pc = "done" /\ reqs'[j].status = 404]_vars

\* Ann deleted her event; her PUT of the same id was then answered 404 and
\* no document is stored
C6_Witness ==
  \E i, j \in 1..Len(reqs) :
    /\ IsDelete(reqs[i]) /\ reqs[i].id = 1 /\ reqs[i].status = 200
    /\ IsPut(reqs[j]) /\ reqs[j].id = 1 /\ reqs[j].status = 404
    /\ events = NoDocs

\* the value C7 expects in a field for the request value x
Expected(x) ==
  IF x.t = "string" /\ \E k \in 1..Len(x.s) : ~IsWhite(x.s[k])
    THEN Str(trim(x.s))
  ELSE Null

\* C7: in the step that answers a PUT /events/:id with 200, location,
\* imageUrl and imageDeleteUrl of the stored document become the trimmed
\* request value where the request has a string with a character other than
\* white space, and null otherwise, whatever the document held before.
C7_UpdateOverwritesOptionalFields ==
  [][\A j \in 1..Len(reqs) :
       LET r == reqs[j]
       IN  IsPut(r) /\ r.status = 0 /\ reqs'[j].status = 200
           => /\ r.id \in DOMAIN events'
              /\ events'[r.id].location = Expected(Field(r.body, "location"))
              /\ events'[r.id].imageUrl = Expected(Field(r.body, "imageUrl"))
              /\ events'[r.id].imageDeleteUrl =
                   Expected(Field(r.body, "imageDeleteUrl"))]_vars

\* Ann's PUT without location and imageUrl was answered 200 and the event,
\* created with both, now has null in both
C7_Witness ==
  \E i \in 1..Len(reqs) :
    /\ IsPut(reqs[i]) /\ reqs[i].status = 200
    /\ reqs[i].body = [title |-> Gala, imageDeleteUrl |-> NotAString]
    /\ 1 \in EVENTS
    /\ events[1].title = Str(<<"G", "a", "l", "a">>)
    /\ events[1].location = Null /\ events[1].imageUrl = Null
    /\ events[1].imageDeleteUrl = Null
    /\ SeedEvent.location = Hall /\ SeedEvent.imageUrl = Pic

---------------------------------------------------------------------------
(* Properties of listing and of the profile update *)

Min(a, b) == IF a < b THEN a ELSE b

\* the limit the claim expects for the query values that are plain numbers
PlainLimits ==
  << <<Limit500, 200>>, <<Str(<<"2", "0", "0">>), 200>>,
     <<Str(<<"2", "0", "1">>), 200>>, <<Str(<<"1", "9", "9">>), 199>>,
     <<Str(<<"5", "1">>), 51>>, <<Str(<<"3">>), 3>>, <<Str(<<"0">>), 0>>,
     <<Undefined, 50>>, <<Str(<<>>), 50>> >>

C10_ProfileUpdateBestEffort ==
  [][\A j \in 1..Len(reqs) :
       reqs[j].pc = "auth.updateUser" /\ reqs'[j].pc = "done"
       => reqs'[j].status = 200]_vars

---------------------------------------------------------------------------
(* Two updates of one event in flight *)

\* the four fields of document d are the values request r writes
WrittenBy(d, r) ==
  /\ d.title = Str(trim(Field(r.body, "title").s))
  /\ d.location = Expected(Field(r.body, "location"))
  /\ d.imageUrl = Expected(Field(r.body, "imageUrl"))
  /\ d.imageDeleteUrl = Expected(Field(r.body, "imageDeleteUrl"))

\* documents d and e agree on the fields fixed at creation
SameOrigin(d, e) ==
  /\ d.ownerUid = e.ownerUid /\ d.ownerName = e.ownerName
  /\ d.ownerEmail = e.ownerEmail /\ d.description = e.description
  /\ d.createdAt = e.createdAt

\* C11: PUT /events/:id requests of the owner for one stored event do not
\* hinder each other. Whatever else is in flight, the owner's request passes
\* the ownership check on the document it reads; its write to the still
\* stored document is applied however old its snapshot is, is answered 200,
\* leaves title, location, imageUrl and imageDeleteUrl with exactly the
\* values of that one request and leaves ownerUid, ownerName, ownerEmail,
\* description and createdAt as they were. So every updated document
\* carries the four values of one answered request, the last writer.
C11_LastWriterWins ==
  /\ [][\A j \in 1..Len(reqs) :
          LET r == reqs[j]
          IN  /\ PutEventGet(j) /\ r.id \in EVENTS
                    /\ events[r.id].ownerUid = r.user.uid
                  => /\ reqs'[j].pc = "events.update"
                     /\ reqs'[j].docSnap = events[r.id]
              /\ EventsUpdate(j) /\ r.id \in EVENTS
                  => /\ reqs'[j].status = 200
                     /\ r.docSnap.ownerUid = r.user.uid
                     /\ DOMAIN events' = DOMAIN events
                     /\ WrittenBy(events'[r.id], r)
                     /\ SameOrigin(events'[r.id], events[r.id])
                     /\ \A e \in EVENTS \ {r.id} : events'[e] = events[e]]_vars
  /\ [](\A e \in EVENTS :
          events[e].updatedAt # 0 =>
            \E j \in 1..Len(reqs) :
              /\ IsPut(reqs[j]) /\ reqs[j].id = e /\ reqs[j].status = 200
              /\ WrittenBy(events[e], reqs[j]))

\* Ann's two updates of her event 1 both read the document as created,
\* both were answered 200, and the document holds the four values of the
\* one written last and none of the other's
C11_Witness ==
  \E i, j \in 1..Len(reqs) :
    /\ IsPut(reqs[i]) /\ IsPut(reqs[j])
    /\ reqs[i].id = 1 /\ reqs[j].id = 1
    /\ reqs[i].user.uid = 1 /\ reqs[j].user.uid = 1
    /\ reqs[i].docSnap = SeedEvent /\ reqs[j].docSnap = SeedEvent
    /\ reqs[i].status = 200 /\ reqs[j].status = 200
    /\ reqs[i].body = [title |-> Gala, imageDeleteUrl |-> NotAString]
    /\ reqs[j].body = [title |-> Meetup, location |-> Park, imageUrl |-> Blank,
                       imageDeleteUrl |-> Str(<<"r", "m", " ">>)]
    /\ 1 \in EVENTS
    /\ WrittenBy(events[1], reqs[j]) /\ ~WrittenBy(events[1], reqs[i])
    /\ events[1].location = Str(<<"P", "a", "r", "k">>)
    /\ events[1].imageDeleteUrl = Str(<<"r", "m">>)
    /\ SameOrigin(events[1], SeedEvent)
    /\ events[1].updatedAt = clock

====
